---------------------------- MODULE Spec2Model ----------------------------
(***************************************************************************)
(* State-machine model of AptaTransPipeline (src/aptatrans_pipeline.py):   *)
(* the training controller and its five-file checkpoint, the two           *)
(* pretraining controllers with their NaN guard, the recommendation loop   *)
(* around the MCTS collaborator, and the top-k selection of                *)
(* get_interactionmap.                                                     *)
(***************************************************************************)
EXTENDS Integers, Sequences, FiniteSets, TLC

(***************************************************************************)
(* Bounds of the model.                                                    *)
(***************************************************************************)
\* largest value of the argument epochs of train
MaxEpochs == 2
\* ROC-AUC is drawn from the grid 0/AucLevels .. AucLevels/AucLevels
AucLevels == 2
\* number of calls of train that are explored
MaxRuns == 2
\* largest value of the argument epochs of pretrain_encoder_*
MaxPtEpochs == 2
\* number of batches of each pretraining loader (len(loader))
NumBatches == 2
\* largest value of the argument n_aptamers of recommend
MaxAptamers == 2
\* largest value of the argument top_k of get_interactionmap
MaxTopK == 3

(***************************************************************************)
(* Sub-modules of the pipeline and the checkpoint files.                   *)
(***************************************************************************)
\* sub-modules optimised by train, in the order _save_best_model writes them
BestModules ==
    << "encoder_aptamer", "encoder_protein", "to_im", "conv", "predictor" >>

\* the file each of them is saved to / loaded from
BestFiles ==
    << "encoder_apta_best_auc", "encoder_prot_best_auc", "to_im_best_auc",
       "conv_best_auc", "predictor_best_auc" >>

\* encoders and files of _load_pretrained_models, in load order
PretrainedModules == << "encoder_aptamer", "encoder_protein" >>

PretrainedFiles == << "pretrained_encoder_rna", "pretrained_encoder_protein" >>

Modules ==
    { BestModules[i] : i \in 1..Len(BestModules) }
        \cup { "token_predictor_aptamer", "token_predictor_protein" }

Files ==
    { BestFiles[i] : i \in 1..Len(BestFiles) }
        \cup { PretrainedFiles[i] : i \in 1..Len(PretrainedFiles) }

\* content of a file that does not exist
NoFile == -1

\* parameter set of every sub-module right after construction (seeded init)
InitParams == [m \in Modules |-> 0]

VARIABLES
    pc,             \* what the pipeline is executing
    params,         \* in-memory parameter set (a version tag) of each sub-module
    disk,           \* content of each checkpoint file, NoFile when absent
    tick,           \* number of optimizer passes so far: source of fresh tags
    runs,           \* number of train / pretrain calls made so far
    epochs,         \* argument epochs of the running call
    epoch,          \* last epoch that was run in the running call
    best_auc,       \* self.best_auc
    best_epoch,     \* self.best_epoch
    prevAucs,       \* history: ROC-AUCs of the earlier epochs of this run
    lastEpoch,      \* history: what the last _train_epoch did, the ROC-AUC
                    \* the files on disk had been written with before it,
                    \* the number of files the save of best_epoch wrote and
                    \* whether a save of this call wrote all five
    savedAuc,       \* history: ROC-AUC of the last epoch that wrote a file, or 0
    fam,            \* sequence family of the running pretraining call
    best_loss,      \* local best_loss of pretrain_encoder_*
    batch,          \* number of batches the running epoch loop has consumed
    total_loss,     \* running totals of _run_epoch_pt_*
    total_mlm,
    total_ssp,
    skipped,        \* history: batches the running epoch loop has skipped
    prevLosses,     \* history: held-out losses of the earlier epochs of this call
    lastPt,         \* history: what the end of the last pretraining epoch did
    lastBatch,      \* history: combined loss of the last batch and what was done
    outcome,        \* history: how the last train / pretrain call ended
    target,         \* argument target of recommend
    n_aptamers,     \* argument n_aptamers of recommend
    verbose,        \* argument verbose of recommend
    rc_i,           \* loop variable i of recommend
    results,        \* the mapping recommend builds and returns
    candidate,      \* local candidate of recommend
    score,          \* local score of recommend
    encoded_targetprotein,
    mcts,           \* state of the search procedure
    events,         \* history: calls made on the search procedure and scorer
    made,           \* history: number of make_candidate calls of this call
    gi              \* arguments and result of the last get_interactionmap

loopVars == << epochs, epoch >>

trainVars == << best_auc, best_epoch, prevAucs, lastEpoch, savedAuc >>

ptVars ==
    << fam, best_loss, batch, total_loss, total_mlm, total_ssp, skipped,
       prevLosses, lastPt, lastBatch >>

rcVars ==
    << target, n_aptamers, verbose, rc_i, results, candidate, score,
       encoded_targetprotein, mcts, events, made >>

vars ==
    << pc, params, disk, tick, runs, loopVars, trainVars, ptVars, outcome,
       rcVars, gi >>

NoEpoch ==
    [epoch |-> 0, auc |-> 0, earlier |-> {}, saveCalled |-> FALSE, written |-> 0,
     over |-> 0, bestWritten |-> 0, anyFull |-> FALSE]

(***************************************************************************)
(* Floating-point values as the code uses them: a finite rational n/d, the *)
(* positive infinity or NaN.  Losses are cross-entropies, never negative.  *)
(***************************************************************************)
Fin(x) == [k |-> "fin", n |-> x, d |-> 1]

PosInf == [k |-> "inf", n |-> 0, d |-> 1]

NaN == [k |-> "nan", n |-> 0, d |-> 1]

\* a + b
FAdd(a, b) ==
    IF a.k = "nan" \/ b.k = "nan" THEN NaN
    ELSE IF a.k = "inf" \/ b.k = "inf" THEN PosInf
    ELSE [k |-> "fin", n |-> a.n * b.d + b.n * a.d, d |-> a.d * b.d]

\* a * c for an integer c > 0
FScale(a, c) == IF a.k = "fin" THEN [a EXCEPT !.n = a.n * c] ELSE a

\* a / c for an integer c > 0
FDiv(a, c) == IF a.k = "fin" THEN [a EXCEPT !.d = a.d * c] ELSE a

\* a < b; every comparison with NaN is false
FLt(a, b) ==
    /\ a.k = "fin"
    /\ \/ b.k = "inf"
       \/ b.k = "fin" /\ a.n * b.d < b.n * a.d

\* a = b for two finite values
FEq(a, b) == a.k = "fin" /\ b.k = "fin" /\ a.n * b.d = b.n * a.d

\* torch.isnan
isnan(a) == a.k = "nan"

\* math.isfinite
isfinite(a) == a.k = "fin"

\* values a batch's masked-token loss and structure loss are drawn from
MlmVals == { Fin(0), Fin(1), PosInf, NaN }

SspVals == { Fin(1) }

NoPt ==
    [epoch |-> 0, test_loss |-> Fin(0), earlier |-> {}, saved |-> FALSE,
     sum |-> Fin(0), skipped |-> 0, best |-> PosInf]

NoBatch == [loss |-> Fin(0), did |-> "none"]

(***************************************************************************)
(* Checkpoint store.                                                       *)
(***************************************************************************)
\* a save that replaces the whole bundle or nothing of it
WriteFiles_atomic(p, d, mods, files, k) ==
    [f \in Files |->
        IF k = Len(mods) /\ \E i \in 1..k : files[i] = f
        THEN p[mods[CHOOSE i \in 1..k : files[i] = f]]
        ELSE d[f]]

\* torch.save of the first k sub-modules of mods into files; the (k+1)-th
\* write raises, k = Len(mods) is a save in which every write succeeds
WriteFiles(p, d, mods, files, k) ==
    [f \in Files |->
        IF \E i \in 1..k : files[i] = f
        THEN p[mods[CHOOSE i \in 1..k : files[i] = f]]
        ELSE d[f]]

\* a _save_best_model whose writes never fail
save_best_model_all(p, d, k) ==
    WriteFiles(p, d, BestModules, BestFiles, Len(BestFiles))

\* _save_best_model: five torch.save in a row inside one try block; an
\* exception of the (k+1)-th write ends the block and is swallowed
save_best_model(p, d, k) == WriteFiles(p, d, BestModules, BestFiles, k)

\* number of load_state_dict(torch.load(..)) that run before the first
\* FileNotFoundError of a try block that loads files in order
LoadedCount(d, files) ==
    IF \E i \in 1..Len(files) : d[files[i]] = NoFile
    THEN (CHOOSE i \in 1..Len(files) :
            /\ d[files[i]] = NoFile
            /\ \A j \in 1..(i - 1) : d[files[j]] # NoFile) - 1
    ELSE Len(files)

LoadFiles(p, d, mods, files) ==
    [m \in Modules |->
        IF \E i \in 1..LoadedCount(d, files) : mods[i] = m
        THEN d[files[CHOOSE i \in 1..LoadedCount(d, files) : mods[i] = m]]
        ELSE p[m]]

\* a _load_best_model that leaves the in-memory parameters as they are
load_best_model_none(p, d) == p

\* _load_best_model: loads in order, stops at the first missing file
load_best_model(p, d) == LoadFiles(p, d, BestModules, BestFiles)

\* _load_pretrained_models: same shape over the two pretrained encoders
load_pretrained_models(p, d) == LoadFiles(p, d, PretrainedModules, PretrainedFiles)

(***************************************************************************)
(* Training controller.                                                    *)
(***************************************************************************)
\* one pass of _batch_step over train_loader in train mode: optimizer.step
\* changes the five optimised sub-modules, the token predictors are not in
\* the optimizer
TrainPass(p, t) ==
    [m \in Modules |->
        IF \E i \in 1..Len(BestModules) : BestModules[i] = m THEN t ELSE p[m]]

\* line 252 with >= in place of >
IsBest_ge(auc, best) == auc >= best

\* the test of line 252
IsBest(auc, best) == auc > best

\* line 254 without the assignment: the old best is kept
NewBestAuc_keep(auc, best) == best

\* self.best_auc = scores['roc_auc'], line 254
NewBestAuc(auc, best) == auc

\* train(epochs): lines 204-206
\* a train that starts from the best_auc the pipeline already has
StartBestAuc_keep(best) == best

\* self.best_auc = 0, line 204
StartBestAuc(best) == 0

train(n) ==
    /\ pc = "idle"
    /\ runs < MaxRuns
    /\ pc' = "train"
    /\ runs' = runs + 1
    /\ epochs' = n
    /\ epoch' = 0
    /\ best_auc' = StartBestAuc(best_auc)
    /\ best_epoch' = 0
    /\ prevAucs' = {}
    /\ lastEpoch' = NoEpoch
    /\ outcome' = "running"
    /\ UNCHANGED << params, disk, tick, ptVars, savedAuc >>
    /\ UNCHANGED << rcVars, gi >>

\* _train_epoch(epoch + 1): the training pass, the held-out pass giving
\* roc_auc = auc, and the checkpoint decision; k is the number of writes of
\* _save_best_model that succeed
train_epoch(auc, k) ==
    /\ pc = "train"
    /\ epoch < epochs
    /\ epoch' = epoch + 1
    /\ tick' = tick + 1
    /\ params' = TrainPass(params, tick + 1)
    /\ IF IsBest(auc, best_auc)
       THEN /\ best_epoch' = epoch + 1
            /\ best_auc' = NewBestAuc(auc, best_auc)
            /\ disk' = save_best_model(params', disk, k)
            /\ lastEpoch' = [epoch |-> epoch + 1, auc |-> auc, earlier |-> prevAucs,
                             saveCalled |-> TRUE, written |-> k,
                             over |-> savedAuc, bestWritten |-> k,
                             anyFull |-> (lastEpoch.anyFull \/ k = Len(BestFiles))]
            /\ savedAuc' = IF disk' # disk THEN auc ELSE savedAuc
       ELSE /\ k = Len(BestFiles)
            /\ UNCHANGED << best_epoch, best_auc, disk, savedAuc >>
            /\ lastEpoch' = [epoch |-> epoch + 1, auc |-> auc, earlier |-> prevAucs,
                             saveCalled |-> FALSE, written |-> 0,
                             over |-> savedAuc,
                             bestWritten |-> lastEpoch.bestWritten,
                             anyFull |-> lastEpoch.anyFull]
    /\ prevAucs' = prevAucs \cup {auc}
    /\ UNCHANGED << pc, runs, epochs, ptVars, outcome >>
    /\ UNCHANGED << rcVars, gi >>

\* the for loop of train is exhausted: train returns
train_return ==
    /\ pc = "train"
    /\ epoch = epochs
    /\ pc' = "idle"
    /\ outcome' = "returned"
    /\ UNCHANGED << params, disk, tick, runs, loopVars, trainVars, ptVars >>
    /\ UNCHANGED << rcVars, gi >>

\* inference / get_interactionmap / recommend start with _load_best_model
inference ==
    /\ pc = "idle"
    /\ params' = load_best_model(params, disk)
    /\ UNCHANGED << pc, disk, tick, runs, loopVars, trainVars, ptVars, outcome >>
    /\ UNCHANGED << rcVars, gi >>

(***************************************************************************)
(* Pretraining controller: pretrain_encoder_aptamer and                    *)
(* pretrain_encoder_protein are the same code over the two families.       *)
(***************************************************************************)
Families == { "aptamer", "protein" }

PtEncoder(f) == IF f = "aptamer" THEN "encoder_aptamer" ELSE "encoder_protein"

PtHead(f) ==
    IF f = "aptamer" THEN "token_predictor_aptamer" ELSE "token_predictor_protein"

\* savepath, lines 315 and 374
PtFile(f) ==
    IF f = "aptamer" THEN "pretrained_encoder_rna" ELSE "pretrained_encoder_protein"

\* loss = l_mlm * 2 + l_ssp, lines 354 and 408
CombinedLoss(l_mlm, l_ssp) == FAdd(FScale(l_mlm, 2), l_ssp)

\* the guard of lines 356 and 410: the batch is skipped
SkipBatch(loss) == isnan(loss)

\* lines 335 and 389 with <= in place of <
Improved_le(test_loss, best) == ~FLt(best, test_loss) /\ ~isnan(test_loss)

\* the test of lines 335 and 389
Improved(test_loss, best) == FLt(test_loss, best)

\* the running total returned as it is, without the division
EpochLoss_total(total, len_loader) == total

\* total_loss / len(loader), lines 370 and 424
EpochLoss(total, len_loader) == FDiv(total, len_loader)

\* optimizer_pt_*.step(): the encoder and its token predictor change
PtStep(p, f, t) ==
    [m \in Modules |-> IF m \in { PtEncoder(f), PtHead(f) } THEN t ELSE p[m]]

\* pretrain_encoder_*(epochs): lines 315-320 and 374-379.  best_loss and the
\* optimizer are local to the call, so one call is followed from the state
\* after construction
pretrain_encoder(f, n) ==
    /\ pc = "idle"
    /\ outcome = "none"
    /\ pc' = "pt_train"
    /\ runs' = runs
    /\ fam' = f
    /\ epochs' = n
    /\ epoch' = 0
    /\ best_loss' = PosInf
    /\ batch' = 0
    /\ total_loss' = Fin(0)
    /\ total_mlm' = Fin(0)
    /\ total_ssp' = Fin(0)
    /\ skipped' = 0
    /\ prevLosses' = {}
    /\ lastPt' = NoPt
    /\ lastBatch' = NoBatch
    /\ outcome' = "running"
    /\ UNCHANGED << params, disk, tick, trainVars >>
    /\ UNCHANGED << rcVars, gi >>

\* one iteration of the batch loop of _run_epoch_pt_* (lines 343-369 and
\* 397-423) on a batch whose two losses are l_mlm and l_ssp
run_batch(l_mlm, l_ssp) ==
    /\ pc \in { "pt_train", "pt_test" }
    /\ epoch < epochs
    /\ batch < NumBatches
    /\ batch' = batch + 1
    /\ LET loss == CombinedLoss(l_mlm, l_ssp) IN
         IF SkipBatch(loss)
         THEN /\ lastBatch' = [loss |-> loss, did |-> "skip"]
              /\ skipped' = skipped + 1
              /\ UNCHANGED << params, tick, total_loss, total_mlm, total_ssp >>
         ELSE /\ IF pc = "pt_train"
                 THEN /\ tick' = tick + 1
                      /\ params' = PtStep(params, fam, tick + 1)
                      /\ lastBatch' = [loss |-> loss, did |-> "step"]
                 ELSE /\ UNCHANGED << params, tick >>
                      /\ lastBatch' = [loss |-> loss, did |-> "eval"]
              /\ total_mlm' = FAdd(total_mlm, l_mlm)
              /\ total_ssp' = FAdd(total_ssp, l_ssp)
              /\ total_loss' = FAdd(total_loss, loss)
              /\ skipped' = skipped
    /\ UNCHANGED << pc, disk, runs, loopVars, trainVars, fam, best_loss,
                    prevLosses, lastPt, outcome >>
    /\ UNCHANGED << rcVars, gi >>

\* the training pass returns (lines 326-327); the held-out pass starts with
\* fresh totals (lines 332 / 386, 341 / 395)
end_train_pass ==
    /\ pc = "pt_train"
    /\ epoch < epochs
    /\ batch = NumBatches
    /\ pc' = "pt_test"
    /\ batch' = 0
    /\ total_loss' = Fin(0)
    /\ total_mlm' = Fin(0)
    /\ total_ssp' = Fin(0)
    /\ skipped' = 0
    /\ UNCHANGED << params, disk, tick, runs, loopVars, trainVars, fam,
                    best_loss, prevLosses, lastPt, lastBatch, outcome >>
    /\ UNCHANGED << rcVars, gi >>

\* the held-out pass returns total_loss / len(loader) and the checkpoint
\* decision of lines 335-337 / 389-391 is taken; ok = FALSE is a torch.save
\* that raises: nothing catches it, the call ends with the exception
end_epoch(ok) ==
    /\ pc = "pt_test"
    /\ batch = NumBatches
    /\ LET test_loss == EpochLoss(total_loss, NumBatches) IN
         /\ lastPt' = [epoch |-> epoch + 1, test_loss |-> test_loss,
                       earlier |-> prevLosses,
                       saved |-> Improved(test_loss, best_loss),
                       sum |-> total_loss, skipped |-> skipped,
                       best |-> best_loss]
         /\ prevLosses' = prevLosses \cup { test_loss }
         /\ IF Improved(test_loss, best_loss)
            THEN /\ best_loss' = test_loss
                 /\ IF ok
                    THEN /\ disk' = WriteFiles(params, disk, << PtEncoder(fam) >>,
                                               << PtFile(fam) >>, 1)
                         /\ pc' = "pt_train"
                         /\ outcome' = outcome
                    ELSE /\ disk' = disk
                         /\ pc' = "idle"
                         /\ outcome' = "raised"
            ELSE /\ ok
                 /\ pc' = "pt_train"
                 /\ UNCHANGED << best_loss, disk, outcome >>
    /\ epoch' = epoch + 1
    /\ batch' = 0
    /\ total_loss' = Fin(0)
    /\ total_mlm' = Fin(0)
    /\ total_ssp' = Fin(0)
    /\ skipped' = 0
    /\ UNCHANGED << params, tick, runs, epochs, trainVars, fam, lastBatch >>
    /\ UNCHANGED << rcVars, gi >>

\* the for loop of pretrain_encoder_* is exhausted: the call returns
pretrain_return ==
    /\ pc = "pt_train"
    /\ epoch = epochs
    /\ pc' = "idle"
    /\ outcome' = "returned"
    /\ UNCHANGED << params, disk, tick, runs, loopVars, trainVars, ptVars >>
    /\ UNCHANGED << rcVars, gi >>

\* AptaTransPipeline(load_best_pt, load_best_model): a new instance on the
\* same checkpoint directory, lines 94-136
new_pipeline(load_best_pt, load_best_model_flag) ==
    /\ pc = "idle"
    /\ LET p1 == IF load_best_pt
                 THEN load_pretrained_models(InitParams, disk)
                 ELSE InitParams
       IN params' = IF load_best_model_flag THEN load_best_model(p1, disk) ELSE p1
    /\ UNCHANGED << pc, disk, tick, runs, loopVars, trainVars, ptVars, outcome >>
    /\ UNCHANGED << rcVars, gi >>

(***************************************************************************)
(* Vocabulary and tokenisation.                                            *)
(***************************************************************************)
apta_max_len == 275

prot_max_len == 867

\* letters = ['A', 'C', 'G', 'U', 'N'], line 87
letters == << "A", "C", "G", "U", "N" >>

LetterIndex(c) == (CHOOSE x \in 1..Len(letters) : letters[x] = c) - 1

\* self.apta_words, lines 88-92: the id of a three-letter word
apta_words(w) ==
    25 * LetterIndex(w[1]) + 5 * LetterIndex(w[2]) + LetterIndex(w[3]) + 1

\* the word of an id: reversed_apta_words, line 489
reversed_apta_words(v) ==
    CHOOSE w \in [1..3 -> { letters[x] : x \in 1..Len(letters) }] : apta_words(w) = v

\* rna2vec: the overlapping three-letter words of a sequence as ids,
\* zero-padded to apta_max_len
rna2vec(seq) ==
    [x \in 1..apta_max_len |->
        IF x + 2 <= Len(seq) THEN apta_words(SubSeq(seq, x, x + 2)) ELSE 0]

\* the frequent protein words kept by _load_protein_words, lines 82-85
ProtWordList == << << "K", "K", "L" >>, << "K", "L", "K" >>, << "L", "K", "K" >> >>

\* self.prot_words: the id of a word, 0 for a word that is not kept
prot_words(w) ==
    IF \E x \in 1..Len(ProtWordList) : ProtWordList[x] = w
    THEN CHOOSE x \in 1..Len(ProtWordList) : ProtWordList[x] = w
    ELSE 0

\* reversed_prot_words, line 491
reversed_prot_words(v) == ProtWordList[v]

\* tokenize_sequences([prot], prot_max_len, ..): ids of the words of a
\* protein, zero-padded to prot_max_len
tokenize_sequences(seq) ==
    [x \in 1..prot_max_len |->
        IF x + 2 <= Len(seq) THEN prot_words(SubSeq(seq, x, x + 2)) ELSE 0]

\* tokens[tokens != 0], lines 485-486
NonZero(tokens) == SelectSeq(tokens, LAMBDA t : t # 0)

\* aptamers and proteins the routines are called with
AptaSamples ==
    { << "A", "C", "G" >>, << "A", "C", "G", "U" >>, << "G", "G", "A", "U", "C" >> }

ProtSamples == { << "K", "K", "L" >>, << "K", "K", "L", "K" >> }

(***************************************************************************)
(* Scorer and search procedure (the collaborators of recommend).           *)
(***************************************************************************)
\* AptaTransWrapper(apta, prot): the score is a function of the five
\* wrapped sub-modules' parameters and of the two token sequences
classifier(p, apta, prot) ==
    [model |-> [x \in 1..Len(BestModules) |-> p[BestModules[x]]],
     apta |-> apta, prot |-> prot]

NoScore == [model |-> << >>, apta |-> << >>, prot |-> << >>]

\* MCTS(encoded_targetprotein, depth, iteration, ..): a fresh search state
mcts_new == [base |-> << >>, candidate |-> << >>]

\* candidates the search procedure can arrive at
CandSamples == AptaSamples

\* make_candidate(scorer): the search grows its current state into a
\* candidate that extends it; a state nothing extends is returned as it is
MakeCandidates(m) ==
    IF \E c \in CandSamples :
          Len(c) > Len(m.base) /\ SubSeq(c, 1, Len(m.base)) = m.base
    THEN { [base |-> c, candidate |-> c] :
             c \in { c \in CandSamples :
                       /\ Len(c) >= Len(m.base)
                       /\ SubSeq(c, 1, Len(m.base)) = m.base } }
    ELSE { [base |-> m.base, candidate |-> m.base] }

\* get_candidate()
get_candidate(m) == m.candidate

\* reset()
mcts_reset(m) == mcts_new

(***************************************************************************)
(* Recommendation loop.                                                    *)
(***************************************************************************)
\* range(n_aptamers) with one iteration too many
InRange_le(x, n) == x <= n

\* for i in range(n_aptamers), line 597
InRange(x, n) == x < n

\* line 616 reading the candidate after the reset
SimSeq_afterReset(m) == get_candidate(mcts_reset(m))

\* sim_seq = np.array([mcts.get_candidate()]), line 616
SimSeq(m) == get_candidate(m)

\* _evaluate_candidate without its mcts.reset()
EvalReset_none(m) == m

\* mcts.reset() at the end of _evaluate_candidate, line 623
EvalReset(m) == mcts_reset(m)

\* self._encode_target_protein(target), lines 608-610
encode_target_protein(t) == tokenize_sequences(t)

\* recommend(target, n_aptamers, depth, iteration, verbose): lines 580-595
recommend(t, n, v) ==
    /\ pc = "idle"
    /\ pc' = "rc_loop"
    /\ params' = load_best_model(params, disk)
    /\ target' = t
    /\ n_aptamers' = n
    /\ verbose' = v
    /\ results' = << >>
    /\ encoded_targetprotein' = encode_target_protein(t)
    /\ mcts' = mcts_new
    /\ rc_i' = 0
    /\ candidate' = << >>
    /\ score' = NoScore
    /\ events' = << >>
    /\ made' = 0
    /\ outcome' = "running"
    /\ UNCHANGED << disk, tick, runs, loopVars, trainVars, ptVars, gi >>

\* mcts.make_candidate(self.classifier), line 598
rc_make ==
    /\ pc = "rc_loop"
    /\ InRange(rc_i, n_aptamers)
    /\ pc' = "rc_made"
    /\ \E m \in MakeCandidates(mcts) : mcts' = m
    /\ events' = Append(events, "make_candidate")
    /\ made' = made + 1
    /\ UNCHANGED << params, disk, tick, runs, loopVars, trainVars, ptVars,
                    outcome, target, n_aptamers, verbose, rc_i, results,
                    candidate, score, encoded_targetprotein, gi >>

\* candidate = mcts.get_candidate(), line 599
rc_get ==
    /\ pc = "rc_made"
    /\ pc' = "rc_got"
    /\ candidate' = get_candidate(mcts)
    /\ events' = Append(events, "get_candidate")
    /\ UNCHANGED << params, disk, tick, runs, loopVars, trainVars, ptVars,
                    outcome, target, n_aptamers, verbose, rc_i, results,
                    score, encoded_targetprotein, mcts, made, gi >>

\* score = self._evaluate_candidate(mcts, encoded_targetprotein, verbose),
\* lines 600 and 612-625
evaluate_candidate ==
    /\ pc = "rc_got"
    /\ pc' = "rc_scored"
    /\ score' = classifier(params, rna2vec(SimSeq(mcts)), encoded_targetprotein)
    /\ mcts' = EvalReset(mcts)
    /\ events' = events \o << "get_candidate", "score" >>
                        \o (IF verbose THEN << "get_candidate" >> ELSE << >>)
                        \o << "reset" >>
    /\ UNCHANGED << params, disk, tick, runs, loopVars, trainVars, ptVars,
                    outcome, target, n_aptamers, verbose, rc_i, results,
                    candidate, encoded_targetprotein, made, gi >>

\* results[i] = {'candidate': candidate, 'score': score}, line 601
rc_store ==
    /\ pc = "rc_scored"
    /\ pc' = "rc_loop"
    /\ results' = [x \in (DOMAIN results) \cup { rc_i } |->
                     IF x = rc_i
                     THEN [candidate |-> candidate, score |-> score]
                     ELSE results[x]]
    /\ rc_i' = rc_i + 1
    /\ UNCHANGED << params, disk, tick, runs, loopVars, trainVars, ptVars,
                    outcome, target, n_aptamers, verbose, candidate, score,
                    encoded_targetprotein, mcts, events, made, gi >>

\* the loop is exhausted: _final_evaluation and return results, lines 603-605
rc_return ==
    /\ pc = "rc_loop"
    /\ ~InRange(rc_i, n_aptamers)
    /\ pc' = "idle"
    /\ outcome' = "recommended"
    /\ UNCHANGED << params, disk, tick, runs, loopVars, trainVars, ptVars,
                    rcVars, gi >>

(***************************************************************************)
(* Explainability routine.                                                 *)
(***************************************************************************)
\* exp of an entry of the interaction map: the weights softmax normalises
ExpVals == { 1, 2 }

RECURSIVE FSum(_, _)
\* f[1] + .. + f[n]
FSum(f, n) == IF n = 0 THEN Fin(0) ELSE FAdd(FSum(f, n - 1), f[n])

RECURSIVE ISum(_, _)
ISum(f, n) == IF n = 0 THEN 0 ELSE ISum(f, n - 1) + f[n]

\* im.softmax(1 - dim): the normalisation over the other axis
softmax_other(e, n, m, dim) ==
    [c \in (1..n) \X (1..m) |->
        [k |-> "fin", n |-> e[c],
         d |-> IF dim = 0
               THEN ISum([y \in 1..m |-> e[<< c[1], y >>]], m)
               ELSE ISum([x \in 1..n |-> e[<< x, c[2] >>]], n)]]

\* im.softmax(dim): dim 0 normalises over the aptamer axis (every protein
\* column sums to 1), dim 1 over the protein axis (every aptamer row sums
\* to 1); e holds exp(im) on the n x m stripped map
softmax(e, n, m, dim) ==
    [c \in (1..n) \X (1..m) |->
        [k |-> "fin", n |-> e[c],
         d |-> IF dim = 0
               THEN ISum([x \in 1..n |-> e[<< x, c[2] >>]], n)
               ELSE ISum([y \in 1..m |-> e[<< c[1], y >>]], m)]]

\* w.sum(axis): axis 1 gives one score per aptamer token, axis 0 one per
\* protein token
sum_axis(w, n, m, axis) ==
    IF axis = 1
    THEN [x \in 1..n |-> FSum([y \in 1..m |-> w[<< x, y >>]], m)]
    ELSE [y \in 1..m |-> FSum([x \in 1..n |-> w[<< x, y >>]], n)]

\* np.argsort(scores): the zero-based indices in ascending order of score;
\* the order among equal scores is whatever the sort produces
argsort(sc) ==
    { perm \in [1..Len(sc) -> 0..(Len(sc) - 1)] :
        /\ \A a, b \in 1..Len(sc) : a # b => perm[a] # perm[b]
        /\ \A a, b \in 1..Len(sc) :
              a < b => ~FLt(sc[perm[b] + 1], sc[perm[a] + 1]) }

\* the slice seq[-(k + 1):]: one index too many
LastK_more(seq, k) ==
    IF k + 1 >= Len(seq) THEN seq
    ELSE SubSeq(seq, Len(seq) - k, Len(seq))

\* the slice seq[-k:] of Python for k >= 0: -0 is 0, so k = 0 is seq[0:]
LastK(seq, k) ==
    IF k = 0 \/ k >= Len(seq) THEN seq
    ELSE SubSeq(seq, Len(seq) - k + 1, Len(seq))

\* [i for i in range(len(tokens))], lines 503 and 508
AllIndices(n) == [x \in 1..n |-> x - 1]

IsAptaView(view) == view \in { "apta", "Apta", "Aptamer", "aptamer" }

IsProtView(view) ==
    view \in { "prot", "Prot", "Protein", "protein", "target", "Target" }

\* values of the argument view: two recognised selectors, None and a
\* string that is none of the selectors
Views == { "aptamer", "protein", "None", "both" }

NoMap == [called |-> FALSE]

\* the tokenisations of lines 477-478 and 485-486 for the sampled inputs
AptaTokenized == [a \in AptaSamples |-> NonZero(rna2vec(a))]

ProtTokenized == [q \in ProtSamples |-> NonZero(tokenize_sequences(q))]

\* the stripped maps generate_interaction_map can return for a pair
\* (line 495), as exp of their entries
Maps(apta, prot) ==
    [ (1..Len(AptaTokenized[apta])) \X (1..Len(ProtTokenized[prot])) -> ExpVals ]

\* get_interactionmap(apta, prot, view, plot = False, top_k), lines 468-552;
\* e is exp of the map the model computes.  The routine keeps nothing from
\* one call to the next, so one call is followed
get_interactionmap(apta, prot, view, top_k, e) ==
    /\ pc = "idle"
    /\ ~gi.called
    /\ params' = load_best_model(params, disk)
    /\ LET apta_tokenized == AptaTokenized[apta]
           prot_tokenized == ProtTokenized[prot]
           n == Len(apta_tokenized)
           m == Len(prot_tokenized)
           scores_apta == sum_axis(softmax(e, n, m, 0), n, m, 1)
           scores_prot == sum_axis(softmax(e, n, m, 1), n, m, 0)
       IN \E pa \in argsort(scores_apta), pp \in argsort(scores_prot) :
            gi' = [called |-> TRUE, apta |-> apta, prot |-> prot, view |-> view,
                   top_k |-> top_k,
                   apta_tokens |-> [x \in 1..n |-> reversed_apta_words(apta_tokenized[x])],
                   prot_tokens |-> [y \in 1..m |-> reversed_prot_words(prot_tokenized[y])],
                   im |-> IF IsAptaView(view) THEN softmax(e, n, m, 0)
                          ELSE IF IsProtView(view) THEN softmax(e, n, m, 1)
                          ELSE [c \in (1..n) \X (1..m) |-> Fin(e[c])],
                   interaction_scores |->
                          IF IsAptaView(view) THEN scores_apta
                          ELSE IF IsProtView(view) THEN scores_prot
                          ELSE << scores_apta, scores_prot >>,
                   apta_indices |-> IF IsProtView(view) THEN AllIndices(n)
                                    ELSE LastK(pa, top_k),
                   prot_indices |-> IF IsAptaView(view) THEN AllIndices(m)
                                    ELSE LastK(pp, top_k)]
    /\ UNCHANGED << pc, disk, tick, runs, loopVars, trainVars, ptVars, outcome,
                    rcVars >>

\* no checkpoint file exists
NoFiles == [f \in Files |-> NoFile]

\* every part of the state but the parameters and the files
InitRest ==
    /\ pc = "idle"
    /\ runs = 0
    /\ epochs = 0
    /\ epoch = 0
    /\ best_auc = 0
    /\ best_epoch = 0
    /\ prevAucs = {}
    /\ lastEpoch = NoEpoch
    /\ savedAuc = IF disk = NoFiles THEN 0 ELSE 1
    /\ fam = "aptamer"
    /\ best_loss = PosInf
    /\ batch = 0
    /\ total_loss = Fin(0)
    /\ total_mlm = Fin(0)
    /\ total_ssp = Fin(0)
    /\ skipped = 0
    /\ prevLosses = {}
    /\ lastPt = NoPt
    /\ lastBatch = NoBatch
    /\ outcome = "none"
    /\ target = << >>
    /\ n_aptamers = 0
    /\ verbose = FALSE
    /\ rc_i = 0
    /\ results = << >>
    /\ candidate = << >>
    /\ score = NoScore
    /\ encoded_targetprotein = << >>
    /\ mcts = mcts_new
    /\ events = << >>
    /\ made = 0
    /\ gi = NoMap

\* the state after construction on an empty checkpoint directory
Init ==
    /\ params = InitParams
    /\ disk = NoFiles
    /\ tick = 0
    /\ InitRest

\* a pipeline that train left with the bundle of its first epoch on disk and
\* the parameters of its second epoch in memory
InitTrained ==
    /\ params = TrainPass(InitParams, 2)
    /\ disk = save_best_model(TrainPass(InitParams, 1), NoFiles, Len(BestFiles))
    /\ tick = 2
    /\ InitRest

NextTrain ==
    \/ \E n \in 0..MaxEpochs : train(n)
    \/ \E auc \in 0..AucLevels, k \in 0..Len(BestFiles) : train_epoch(auc, k)
    \/ train_return
    \/ inference

SpecTrain == Init /\ [][NextTrain]_vars

NextPretrain ==
    \/ \E f \in Families, n \in 0..MaxPtEpochs : pretrain_encoder(f, n)
    \/ \E l_mlm \in MlmVals, l_ssp \in SspVals : run_batch(l_mlm, l_ssp)
    \/ end_train_pass
    \/ \E ok \in BOOLEAN : end_epoch(ok)
    \/ pretrain_return
    \/ \E a \in BOOLEAN, b \in BOOLEAN : new_pipeline(a, b)

SpecPretrain == Init /\ [][NextPretrain]_vars

NextRecommend ==
    \/ \E t \in ProtSamples, n \in 0..MaxAptamers, v \in BOOLEAN : recommend(t, n, v)
    \/ rc_make
    \/ rc_get
    \/ evaluate_candidate
    \/ rc_store
    \/ rc_return

SpecRecommend == (Init \/ InitTrained) /\ [][NextRecommend]_vars

NextMap ==
    \E apta \in AptaSamples, prot \in ProtSamples, view \in Views,
       top_k \in 0..MaxTopK :
        \E e \in Maps(apta, prot) : get_interactionmap(apta, prot, view, top_k, e)

SpecMap == Init /\ [][NextMap]_vars

(***************************************************************************)
(* Claims about the training controller, checked under SpecTrain.          *)
(***************************************************************************)
\* C1 as stated: in every epoch of a run _save_best_model is called iff the
\* epoch's ROC-AUC is strictly greater than the ROC-AUC of every earlier
\* epoch of the run
C1_AsStated ==
    lastEpoch.epoch > 0 =>
        (lastEpoch.saveCalled <=> \A a \in lastEpoch.earlier : lastEpoch.auc > a)

\* C1 amended: _save_best_model is called iff the epoch's ROC-AUC is strictly
\* greater than 0, the value best_auc starts from, and than the ROC-AUC of
\* every earlier epoch of the run; a tie writes nothing
C1_SaveIffAboveBest ==
    lastEpoch.epoch > 0 =>
        (lastEpoch.saveCalled <=>
            /\ lastEpoch.auc > 0
            /\ \A a \in lastEpoch.earlier : lastEpoch.auc > a)

\* an epoch that ties with the best ROC-AUC so far and saved nothing
C1_Witness ==
    /\ lastEpoch.epoch = 2
    /\ lastEpoch.auc > 0
    /\ lastEpoch.auc \in lastEpoch.earlier
    /\ \A a \in lastEpoch.earlier : lastEpoch.auc >= a
    /\ ~lastEpoch.saveCalled

\* C2: within one call of train best_auc never decreases from an epoch to the
\* next, _save_best_model is called in exactly the epochs in which best_auc
\* strictly increases, and best_epoch is then that epoch's number
C2_BestAucMonotone ==
    [][ (pc = "train" /\ epoch' = epoch + 1) =>
            /\ best_auc' >= best_auc
            /\ lastEpoch'.saveCalled <=> best_auc' > best_auc
            /\ best_auc' > best_auc => best_epoch' = epoch' ]_vars

\* a second epoch that raised a best_auc the first epoch had already raised
C2_Witness ==
    /\ lastEpoch.epoch = 2
    /\ lastEpoch.saveCalled
    /\ \E a \in lastEpoch.earlier : a > 0
    /\ best_auc = lastEpoch.auc
    /\ best_epoch = 2

\* C12: _save_best_model writes the five components one after another and
\* not atomically: when the save fails after k writes, the first k files
\* hold the parameters of the current epoch and the other files are as they
\* were before (an earlier save, or absent), so for 0 < k < 5 the bundle on
\* disk mixes two parameter sets
C12_PartialSaveMixesBundle ==
    [][ (pc = "train" /\ epoch' = epoch + 1 /\ lastEpoch'.saveCalled) =>
            LET k == lastEpoch'.written IN
              /\ \A x \in 1..Len(BestFiles) :
                    disk'[BestFiles[x]] =
                        IF x <= k THEN params'[BestModules[x]]
                        ELSE disk[BestFiles[x]]
              /\ \A x \in 1..k : disk'[BestFiles[x]] = tick'
              /\ (0 < k /\ k < Len(BestFiles)) =>
                    \A x \in 1..k, y \in (k + 1)..Len(BestFiles) :
                        disk'[BestFiles[x]] # disk'[BestFiles[y]] ]_vars

\* a save of the second epoch failed after two writes on top of the full
\* bundle of the first epoch: two files of epoch 2, three of epoch 1
C12_Witness ==
    /\ pc = "train"
    /\ lastEpoch.epoch = 2
    /\ lastEpoch.saveCalled
    /\ lastEpoch.written = 2
    /\ \A x \in 1..2 : disk[BestFiles[x]] = tick
    /\ \A x \in 3..Len(BestFiles) :
          disk[BestFiles[x]] # NoFile /\ disk[BestFiles[x]] = tick - 1

\* C13: best_auc and best_epoch are raised whenever the save is attempted,
\* also when it fails; after a failed save some file of the bundle is not
\* the one of best_epoch, and a later epoch of the run whose ROC-AUC is not
\* above best_auc leaves the files and best_epoch as they are
C13_FailedSaveKeepsBest ==
    [][ (pc = "train" /\ epoch' = epoch + 1) =>
            /\ lastEpoch'.saveCalled =>
                  best_auc' = lastEpoch'.auc /\ best_epoch' = epoch'
            /\ (lastEpoch'.saveCalled /\ lastEpoch'.written < Len(BestFiles)) =>
                  /\ params'[BestModules[Len(BestFiles)]] = tick'
                  /\ \E x \in 1..Len(BestFiles) : disk'[BestFiles[x]] # tick'
            /\ lastEpoch'.auc <= best_auc =>
                  /\ ~lastEpoch'.saveCalled
                  /\ disk' = disk
                  /\ best_epoch' = best_epoch
                  /\ best_auc' = best_auc ]_vars

\* a run has returned with best_epoch = 1 although the save of epoch 1
\* failed and epoch 2 did not improve: a file on disk is not the one of
\* epoch 1
C13_Witness ==
    /\ outcome = "returned"
    /\ epoch = 2
    /\ best_epoch = 1
    /\ best_auc > 0
    /\ ~lastEpoch.saveCalled
    /\ lastEpoch.auc <= best_auc
    /\ \E x \in 1..Len(BestFiles) : disk[BestFiles[x]] # tick - 1

\* C14: every call of train starts from best_auc = 0 and best_epoch = 0;
\* the first epoch of a call whose ROC-AUC is above 0 calls
\* _save_best_model whatever the bundle on disk was saved with, and every
\* write of it that succeeds replaces the file of the earlier call; while no
\* epoch of the call has had a ROC-AUC above 0 (also when epochs = 0) the
\* files are left as they are and best_epoch stays 0
C14_BestOfLastRunOnly ==
    [][ /\ (pc = "idle" /\ pc' = "train") =>
              best_auc' = 0 /\ best_epoch' = 0 /\ disk' = disk
        /\ (pc = "train" /\ epoch' = epoch + 1 /\ lastEpoch'.auc > 0
               /\ \A a \in lastEpoch'.earlier : a = 0) =>
              /\ lastEpoch'.saveCalled
              /\ best_epoch' = epoch'
              /\ \A x \in 1..lastEpoch'.written : disk'[BestFiles[x]] = tick'
        /\ (pc = "train" /\ \A a \in prevAucs' : a = 0) =>
              disk' = disk /\ best_epoch' = 0 ]_vars

\* the second call of train has replaced a bundle that was saved with a
\* higher ROC-AUC by the bundle of an epoch with a lower one
C14_Witness ==
    /\ runs = 2
    /\ pc = "train"
    /\ lastEpoch.saveCalled
    /\ lastEpoch.written = Len(BestFiles)
    /\ lastEpoch.auc = 1
    /\ best_auc = 1
    /\ lastEpoch.over = 2
    /\ savedAuc = 1
    /\ \A x \in 1..Len(BestFiles) : disk[BestFiles[x]] = tick
    /\ tick >= 2

\* the five files of the bundle exist
AllPresent(d) == \A x \in 1..Len(BestFiles) : d[BestFiles[x]] # NoFile

\* the parameter set the five sub-modules had at the end of best_epoch
BestEpochParams == tick - (epoch - best_epoch)

\* C16 as stated: after a train call in which a save succeeded and with the
\* five files present, the reload of inference puts the parameters of
\* best_epoch into the five sub-modules
C16_AsStated ==
    [][ (inference /\ outcome = "returned" /\ lastEpoch.anyFull
           /\ AllPresent(disk)) =>
            \A x \in 1..Len(BestModules) :
                params'[BestModules[x]] = BestEpochParams ]_vars

\* C16 amended: with the five files present the reload overwrites the five
\* sub-modules with the bundle on disk, whatever is in memory, and leaves
\* the rest alone; the bundle is the parameter set of best_epoch when the
\* save of best_epoch wrote all five files; a save that wrote all five
\* files followed by a load into a new pipeline gives back exactly the
\* saved parameter sets
C16_ReloadBundleOnDisk ==
    [][ /\ (inference /\ AllPresent(disk)) =>
              /\ \A x \in 1..Len(BestModules) :
                    params'[BestModules[x]] = disk[BestFiles[x]]
              /\ \A m \in Modules :
                    (\A x \in 1..Len(BestModules) : BestModules[x] # m) =>
                        params'[m] = params[m]
        /\ (inference /\ outcome = "returned"
               /\ lastEpoch.bestWritten = Len(BestFiles)) =>
              \A x \in 1..Len(BestModules) :
                  params'[BestModules[x]] = BestEpochParams
        /\ (pc = "train" /\ epoch' = epoch + 1
               /\ lastEpoch'.written = Len(BestFiles)) =>
              \A x \in 1..Len(BestModules) :
                  load_best_model(InitParams, disk')[BestModules[x]] =
                      params'[BestModules[x]] ]_vars

\* after a run whose best epoch was the first of two, the reload has put
\* the parameters of epoch 1 in place of those of epoch 2
C16_Witness ==
    /\ outcome = "returned"
    /\ pc = "idle"
    /\ epoch = 2
    /\ best_epoch = 1
    /\ lastEpoch.bestWritten = Len(BestFiles)
    /\ \A x \in 1..Len(BestModules) :
          params[BestModules[x]] = tick - 1 /\ disk[BestFiles[x]] = tick - 1

(***************************************************************************)
(* Claims about the pretraining controller, checked under SpecPretrain.    *)
(***************************************************************************)
\* C3 as stated: a batch whose combined loss is not finite (NaN or infinite)
\* is skipped: the parameters and the three running totals are unchanged,
\* nothing is raised and the loop goes on; a batch with a finite loss in
\* training mode changes the parameters
C3_AsStated ==
    [][ (batch' = batch + 1) =>
            /\ ~isfinite(lastBatch'.loss) =>
                  /\ params' = params
                  /\ << total_loss, total_mlm, total_ssp >>' =
                        << total_loss, total_mlm, total_ssp >>
                  /\ pc' = pc
            /\ (isfinite(lastBatch'.loss) /\ pc = "pt_train") =>
                  params' # params ]_vars

\* the checkpoint decision of C4: the encoder is saved in an epoch iff its
\* held-out loss is strictly lower than the held-out loss of every earlier
\* epoch of the call (and than the initial best_loss, infinity)
C4_SavedIffLower ==
    lastPt.epoch > 0 =>
        (lastPt.saved <=>
            /\ FLt(lastPt.test_loss, PosInf)
            /\ \A e \in lastPt.earlier : FLt(lastPt.test_loss, e))

\* the steps of C4: the checkpoint file changes only in the step that ends
\* a held-out pass, and gets the encoder's current parameters; no step of a
\* held-out pass changes a parameter
C4_Step ==
    /\ disk' # disk =>
          /\ pc = "pt_test"
          /\ batch = NumBatches
          /\ disk' = [disk EXCEPT ![PtFile(fam)] = params[PtEncoder(fam)]]
    /\ pc = "pt_test" => params' = params

C15_Step ==
    (batch' = batch + 1) =>
        /\ total_loss' = IF lastBatch'.did = "skip" THEN total_loss
                         ELSE FAdd(total_loss, lastBatch'.loss)
        /\ skipped' = IF lastBatch'.did = "skip" THEN skipped + 1 ELSE skipped

\* the reported loss of C15: the total divided by the number of batches of
\* the loader, the skipped ones included; a pass that skipped every batch
\* reports 0 and is saved when the best loss so far is positive
C15_Reported ==
    lastPt.epoch > 0 =>
        /\ lastPt.test_loss.k = lastPt.sum.k
        /\ isfinite(lastPt.sum) =>
              FEq(FScale(lastPt.test_loss, NumBatches), lastPt.sum)
        /\ lastPt.skipped = NumBatches =>
              /\ FEq(lastPt.test_loss, Fin(0))
              /\ FLt(Fin(0), lastPt.best) => lastPt.saved

\* the mean of the combined losses over the batches that were not skipped
C15_MeanOfKept == FDiv(lastPt.sum, NumBatches - lastPt.skipped)

C8_AsStated ==
    [][ /\ (inference /\ \E i \in 1..Len(BestFiles) : disk[BestFiles[i]] = NoFile)
            => params' = params
        /\ (new_pipeline(TRUE, FALSE)
              /\ \E i \in 1..Len(PretrainedFiles) : disk[PretrainedFiles[i]] = NoFile)
            => params' = InitParams ]_vars

\* C9 as stated: a checkpoint write that fails in train or in
\* pretrain_encoder_* is caught at the save; the call is never ended by the
\* exception
C9_AsStated == outcome # "raised"

(***************************************************************************)
(* Claims about the recommendation loop, checked under SpecRecommend.      *)
(***************************************************************************)
\* C5: for every n_aptamers >= 0 recommend runs its candidate loop exactly
\* n_aptamers times and returns; the keys are added in the order 0, 1, ..
\* and the returned mapping has exactly the keys 0..n_aptamers-1, each with
\* a 'candidate' and a 'score'
C5_ExactlyNResults ==
    /\ pc \in { "rc_loop", "rc_made", "rc_got", "rc_scored" } =>
          DOMAIN results = 0..(rc_i - 1)
    /\ outcome = "recommended" =>
          /\ made = n_aptamers
          /\ DOMAIN results = 0..(n_aptamers - 1)
          /\ \A x \in DOMAIN results : DOMAIN results[x] = { "candidate", "score" }

\* a returned call that was asked for two candidates
C5_Witness ==
    /\ outcome = "recommended"
    /\ n_aptamers = 2
    /\ made = 2
    /\ DOMAIN results = { 0, 1 }

\* the calls one candidate makes on the search procedure and the scorer
RcCycle ==
    << "make_candidate", "get_candidate", "get_candidate", "score" >>
        \o (IF verbose THEN << "get_candidate" >> ELSE << >>)
        \o << "reset" >>

\* C6: for every candidate the order is make_candidate, get_candidate,
\* re-score, reset, and every make_candidate starts from a reset search
\* procedure: nothing of candidate i is left when candidate i+1 is made
C6_ResetBetweenCandidates ==
    /\ \A x \in 1..Len(events) : events[x] = RcCycle[((x - 1) % Len(RcCycle)) + 1]
    /\ pc = "rc_loop" => mcts = mcts_new
    /\ pc = "rc_scored" => mcts = mcts_new /\ Len(candidate) >= 3

\* the second candidate has been made and differs from the first
C6_Witness ==
    /\ pc = "rc_made"
    /\ made = 2
    /\ 0 \in DOMAIN results
    /\ mcts.candidate # results[0].candidate

\* C7: every recorded score is the wrapped scorer applied to the
\* tokenisation of exactly the recorded candidate, which was read before
\* the reset, and to the encoding of the target computed once before the loop
C7_ScoreOfRecordedCandidate ==
    /\ pc \in { "rc_loop", "rc_made", "rc_got", "rc_scored" } =>
          encoded_targetprotein = tokenize_sequences(target)
    /\ \A x \in DOMAIN results :
          /\ Len(results[x].candidate) >= 3
          /\ results[x].score =
                classifier(params, rna2vec(results[x].candidate),
                           tokenize_sequences(target))

\* two different candidates recorded with two different scores by a scorer
\* whose parameters were reloaded from the bundle
C7_Witness ==
    /\ outcome = "recommended"
    /\ DOMAIN results = { 0, 1 }
    /\ results[0].candidate # results[1].candidate
    /\ results[0].score # results[1].score
    /\ params # InitParams

(***************************************************************************)
(* Claims about get_interactionmap, checked under SpecMap.                 *)
(***************************************************************************)
Min(a, b) == IF a <= b THEN a ELSE b

C11_AsStated ==
    gi.called =>
        LET n == Len(gi.apta_tokens)
            m == Len(gi.prot_tokens)
        IN /\ IsAptaView(gi.view) =>
                 \A x \in 1..n :
                    FEq(FSum([y \in 1..m |-> gi.im[<< x, y >>]], m), Fin(1))
           /\ IsProtView(gi.view) =>
                 \A y \in 1..m :
                    FEq(FSum([x \in 1..n |-> gi.im[<< x, y >>]], n), Fin(1))

\* C11 amended: the softmax runs over the viewed axis: in the aptamer view
\* the weights of every protein position sum to 1 over the aptamer axis, in
\* the protein view the weights of every aptamer position sum to 1 over the
\* protein axis; the saliency of a token of the viewed axis is the sum of
\* its normalised weights along the other axis
C11_SoftmaxAlongViewedAxis ==
    gi.called =>
        LET n == Len(gi.apta_tokens)
            m == Len(gi.prot_tokens)
        IN /\ IsAptaView(gi.view) =>
                 /\ \A y \in 1..m :
                       FEq(FSum([x \in 1..n |-> gi.im[<< x, y >>]], n), Fin(1))
                 /\ Len(gi.interaction_scores) = n
                 /\ \A x \in 1..n :
                       FEq(gi.interaction_scores[x],
                           FSum([y \in 1..m |-> gi.im[<< x, y >>]], m))
           /\ IsProtView(gi.view) =>
                 /\ \A x \in 1..n :
                       FEq(FSum([y \in 1..m |-> gi.im[<< x, y >>]], m), Fin(1))
                 /\ Len(gi.interaction_scores) = m
                 /\ \A y \in 1..m :
                       FEq(gi.interaction_scores[y],
                           FSum([x \in 1..n |-> gi.im[<< x, y >>]], n))

\* an aptamer view of a map with three aptamer tokens and two protein
\* tokens in which two aptamer tokens have different saliencies
C11_Witness ==
    /\ gi.called
    /\ IsAptaView(gi.view)
    /\ Len(gi.apta_tokens) = 3
    /\ Len(gi.prot_tokens) = 2
    /\ FLt(gi.interaction_scores[1], gi.interaction_scores[2])
    /\ ~FEq(gi.interaction_scores[1], Fin(1))

=============================================================================
